---------------------------- MODULE Spec2Model ----------------------------
(***************************************************************************)
(* Model of the deer-flow research server: the job lifecycle manager       *)
(* (src/server/job_manager.py), its durable store                          *)
(* (src/db/supabase_job_store.py), the job runner of src/server/app.py and *)
(* the workflow roles of src/graph/nodes.py.                               *)
(*                                                                         *)
(* Time is counted in whole hours since the start of a 31-day month.       *)
(* Strings that the program only stores and compares (reports, error      *)
(* texts, plan snapshots) are abstract tokens.                             *)
(***************************************************************************)
EXTENDS Integers, Sequences, FiniteSets, TLC

VARIABLES
    jobs,        \* JobManager.jobs: job_id -> ResearchJob (NoJob when absent)
    db_jobs,     \* table research_jobs: job_id -> row (NoRow when absent)
    db_results,  \* table research_results: job_id -> row (NoRow when absent)
    store,       \* JobManager._store: "none" (not configured), "ok", "failing"
    now,         \* datetime.utcnow(), in hours
    seen,        \* per job id, the record last visible in memory to a client
    last,        \* the operation performed by the last step, with its arguments
    run,         \* the request being served and the locals of its runner
    node,        \* the role the workflow executes next
    phase,       \* "start": the role is about to start, "run": it is running
    state,       \* the workflow State (src/graph/types.py)
    hist,        \* what has happened in the current workflow execution
    tasks        \* per job id, the run of _run_research_job on that job

jmvars == <<jobs, db_jobs, db_results, store, now, seen>>
wfvars == <<run, node, phase, state, hist, tasks>>
vars == <<jobs, db_jobs, db_results, store, now, seen, last, run, node, phase,
          state, hist, tasks>>

----------------------------------------------------------------------------
(* Bounds *)

MaxTime == 50
MaxSteps == 2          \* steps of a plan
MaxIter == 1           \* largest max_plan_iterations a request asks for
MaxResumes == 2        \* re-invocations of one stream with a resume value
RecursionLimit == 10   \* supersteps of one graph invocation (recursion_limit)
MaxCandidates == 2     \* candidates the disambiguation extracts
MaxErrors == 2         \* events of one stream that fail to serialise
MaxSweepTime == 721    \* hours the server runs when the sweep is followed
MaxDate == 32          \* days on the clock when delete_old_jobs is called
MaxDays == 30          \* the largest days given to delete_old_jobs

\* The job ids (uuid4) the server hands out
JobIds == DOMAIN jobs

\* The clock advances by a day and an hour.
TickSteps == {25}

----------------------------------------------------------------------------
(* Values *)

None == "None"
NoTime == -1
\* Texts made of parts are sequences of their parts; this one is None
NoText == <<"None">>
NoJob == [status |-> "absent"]
NoRow == [status |-> "absent"]
NoTask == [mode |-> "none", status |-> "none", job |-> NoJob]

\* class ResearchStatus
PENDING == "pending"
COORDINATING == "coordinating"
PLANNING == "planning"
RESEARCHING == "researching"
REPORTING == "reporting"
COMPLETED == "completed"
FAILED == "failed"

ResearchStatus ==
    {PENDING, COORDINATING, PLANNING, RESEARCHING, REPORTING, COMPLETED, FAILED}

\* Exception texts, str(e)
Errors == {"err_a", "err_b"}

----------------------------------------------------------------------------
(* ResearchJob *)

\* ResearchJob.__init__
ResearchJob ==
    [status |-> PENDING, error |-> None, thread_id |-> None,
     final_report |-> None, researcher_findings |-> NoText, plan |-> None,
     structured_output |-> None, completed_at |-> NoTime]

\* ResearchJob.update_status
update_status(job, status) ==
    [job EXCEPT !.status = status,
                !.completed_at = IF status = COMPLETED THEN now ELSE @]

\* ResearchJob.set_error
\* set_error that marks the job without keeping the exception text
set_error_without_text(job, error) ==
    [job EXCEPT !.status = FAILED, !.completed_at = now]

set_error(job, error) ==
    [job EXCEPT !.status = FAILED, !.error = error, !.completed_at = now]

----------------------------------------------------------------------------
(* SupabaseJobStore: each operation maps the tables to the new tables *)

\* SupabaseJobStore.create_job
store_create_job(tbl, job_id) ==
    [tbl EXCEPT ![job_id] =
        [status |-> PENDING, error |-> None, completed_at |-> NoTime]]

\* The store's own datetime.utcnow(), read after the job's: the same hour
\* or, when the hour turns between the two readings, the next
StoreClock == {now, now + 1}

\* SupabaseJobStore.update_job_status (error is never passed by JobManager);
\* at is the store's reading of the clock
store_update_job_status(tbl, job_id, status, at) ==
    IF tbl[job_id] = NoRow THEN tbl
    ELSE [tbl EXCEPT ![job_id] =
            [@ EXCEPT !.status = status,
                      !.completed_at =
                          IF status \in {COMPLETED, FAILED} THEN at ELSE @]]

\* SupabaseJobStore.create_result
store_create_result(tbl, job_id, job) ==
    [tbl EXCEPT ![job_id] =
        [status |-> "result", thread_id |-> job.thread_id,
         final_report |-> job.final_report,
         researcher_findings |-> job.researcher_findings,
         structured_output |-> job.structured_output, plan |-> job.plan]]

\* A reconstruction that does not read the plan back
job_from_db_without_plan(job_id) ==
    LET row == db_jobs[job_id]
        res == db_results[job_id]
        has == res # NoRow
    IN  [status |-> row.status, error |-> row.error,
         thread_id |-> IF has THEN res.thread_id ELSE None,
         final_report |-> IF has THEN res.final_report ELSE None,
         researcher_findings |->
             IF has THEN res.researcher_findings ELSE NoText,
         plan |-> None,
         structured_output |-> IF has THEN res.structured_output ELSE None,
         completed_at |-> row.completed_at]

\* SupabaseJobStore.get_job_with_result, then the reconstruction in
\* JobManager.get_job
job_from_db(job_id) ==
    LET row == db_jobs[job_id]
        res == db_results[job_id]
        has == res # NoRow
    IN  [status |-> row.status, error |-> row.error,
         thread_id |-> IF has THEN res.thread_id ELSE None,
         final_report |-> IF has THEN res.final_report ELSE None,
         researcher_findings |->
             IF has THEN res.researcher_findings ELSE NoText,
         plan |-> IF has THEN res.plan ELSE None,
         structured_output |-> IF has THEN res.structured_output ELSE None,
         completed_at |-> row.completed_at]

\* Day of the month of a time
DayOf(t) == ((t \div 24) % 31) + 1

\* SupabaseJobStore.delete_old_jobs: datetime.replace(day=day - days) raises
\* ValueError unless the new day is a day of the month; the error is caught
\* and nothing is deleted.
delete_old_jobs(tbl, days) ==
    IF DayOf(now) - days < 1 THEN tbl
    ELSE LET cutoff == now - 24 * days
         IN  [j \in JobIds |->
                IF /\ tbl[j] # NoRow
                   /\ tbl[j].status \in {COMPLETED, FAILED}
                   /\ tbl[j].completed_at # NoTime
                   /\ tbl[j].completed_at < cutoff
                THEN NoRow ELSE tbl[j]]

----------------------------------------------------------------------------
(* What a client can see of a job in memory *)

Observe ==
    seen' = [j \in JobIds |-> IF jobs'[j] # NoJob THEN jobs'[j] ELSE seen[j]]

----------------------------------------------------------------------------
(* JobManager operations *)

\* A create_job that gives up the job when the insert fails
create_job_unless_insert_fails(job_id) ==
    /\ jobs[job_id] = NoJob /\ db_jobs[job_id] = NoRow /\ seen[job_id] = NoJob
    /\ jobs' = IF store = "failing" THEN jobs
               ELSE [jobs EXCEPT ![job_id] = ResearchJob]
    /\ db_jobs' = IF store = "ok" THEN store_create_job(db_jobs, job_id)
                  ELSE db_jobs

\* JobManager.create_job: a fresh uuid4 is an id never used before.  An
\* insert that raises is logged and nothing else.
create_job(job_id) ==
    /\ jobs[job_id] = NoJob /\ db_jobs[job_id] = NoRow /\ seen[job_id] = NoJob
    /\ jobs' = [jobs EXCEPT ![job_id] = ResearchJob]
    /\ db_jobs' = IF store = "ok" THEN store_create_job(db_jobs, job_id)
                  ELSE db_jobs

\* JobManager.update_job_status
update_job_status(job_id, status) ==
    /\ jobs' = [jobs EXCEPT ![job_id] = update_status(@, status)]
    /\ \E at \in StoreClock :
          db_jobs' = IF store = "ok"
                     THEN store_update_job_status(db_jobs, job_id, status, at)
                     ELSE db_jobs

\* A save_job_result that does not look at the status
save_job_result_any_status(job_id, job) ==
    db_results' = IF store = "ok" /\ db_jobs[job_id] # NoRow
                  THEN store_create_result(db_results, job_id, job)
                  ELSE db_results

\* JobManager.save_job_result, called on the job as it is after the update
\* of the same step (job).  The result row refers to the job's row: an
\* insert for a job without a row raises in the store, which is logged.
save_job_result(job_id, job) ==
    db_results' = IF /\ store = "ok" /\ job.status = COMPLETED
                     /\ db_jobs[job_id] # NoRow
                  THEN store_create_result(db_results, job_id, job)
                  ELSE db_results

\* SupabaseJobStore.delete_job: the job's row goes, and its result row with
\* it (ON DELETE CASCADE)
store_delete_job(tbl, job_id) == [tbl EXCEPT ![job_id] = NoRow]

\* What a client sees of a job it has deleted
Deleted == [ResearchJob EXCEPT !.status = "deleted"]

\* A delete_job that leaves the job's task alone
delete_job_without_cancel(job_id) ==
    /\ tasks' = tasks
    /\ jobs' = [jobs EXCEPT ![job_id] = NoJob]
    /\ db_jobs' = IF store = "ok" THEN store_delete_job(db_jobs, job_id)
                  ELSE db_jobs
    /\ db_results' = IF store = "ok" THEN store_delete_job(db_results, job_id)
                     ELSE db_results
    /\ seen' = [seen EXCEPT ![job_id] = Deleted]

\* JobManager.delete_job.  job.task is set by start_async_research alone,
\* and a job that is in the cache while its task runs is the object the
\* task works on (the sweep and get_job only replace jobs whose run has
\* ended).  A delete that raises in the store is logged and nothing else.
delete_job(job_id) ==
    /\ tasks' = IF /\ jobs[job_id] # NoJob
                   /\ tasks[job_id].mode = "async"
                   /\ tasks[job_id].status \in {"created", "running"}
                THEN [tasks EXCEPT ![job_id].status = "cancelled"]
                ELSE tasks
    /\ jobs' = [jobs EXCEPT ![job_id] = NoJob]
    /\ db_jobs' = IF store = "ok" THEN store_delete_job(db_jobs, job_id)
                  ELSE db_jobs
    /\ db_results' = IF store = "ok" THEN store_delete_job(db_results, job_id)
                     ELSE db_results
    /\ seen' = [seen EXCEPT ![job_id] = Deleted]

\* A get_job that asks the store before the cache
get_job_store_first(job_id) ==
    IF store = "ok" /\ db_jobs[job_id] # NoRow THEN job_from_db(job_id)
    ELSE jobs[job_id]

\* JobManager.get_job, what it returns: the cached job; else the job
\* rebuilt from the store's row; else None (NoJob), also when the store
\* raises
get_job(job_id) ==
    IF jobs[job_id] # NoJob THEN jobs[job_id]
    ELSE IF store = "ok" /\ db_jobs[job_id] # NoRow THEN job_from_db(job_id)
    ELSE NoJob

\* JobManager.get_job, for an id that a client was given.  A job found in
\* the cache is returned as it is, which changes nothing: the steps of
\* GetJob are the calls that miss the cache.
GetJob(job_id) ==
    /\ seen[job_id] # NoJob
    /\ jobs[job_id] = NoJob
    /\ jobs' = [jobs EXCEPT ![job_id] = get_job(job_id)]
    /\ last' = [op |-> "get_job", job |-> job_id, found |-> jobs'[job_id] # NoJob]
    /\ Observe
    /\ UNCHANGED <<db_jobs, db_results, store, now>>
    /\ UNCHANGED wfvars

\* JobManager.cleanup_old_jobs, one round of the hourly loop.  A round that
\* finds nothing to remove changes nothing: the steps of CleanupOldJobs are
\* the rounds that remove something.
MaxAgeHours == 24
OldJobDays == 30

CleanupOldJobs ==
    /\ jobs' = [j \in JobIds |->
                  IF /\ jobs[j] # NoJob
                     /\ jobs[j].completed_at # NoTime
                     /\ now - jobs[j].completed_at > MaxAgeHours
                  THEN NoJob ELSE jobs[j]]
    /\ db_jobs' = IF store = "ok" THEN delete_old_jobs(db_jobs, OldJobDays)
                  ELSE db_jobs
    \* the result row goes with its job row (ON DELETE CASCADE)
    /\ db_results' = [j \in JobIds |->
                        IF db_jobs'[j] = NoRow THEN NoRow ELSE db_results[j]]
    /\ <<jobs', db_jobs'>> # <<jobs, db_jobs>>
    /\ last' = [op |-> "cleanup"]
    /\ Observe
    /\ UNCHANGED <<store, now>>
    /\ UNCHANGED wfvars

Tick ==
    /\ \E dt \in TickSteps : now + dt <= MaxTime /\ now' = now + dt
    /\ last' = [op |-> "tick"]
    /\ UNCHANGED <<jobs, db_jobs, db_results, store, seen>>
    /\ UNCHANGED wfvars

\* The clock advances by the store's retention of 30 days and an hour
Wait ==
    /\ \E dt \in {24 * OldJobDays + 1} :
          now + dt <= MaxSweepTime /\ now' = now + dt
    /\ last' = [op |-> "tick"]
    /\ UNCHANGED <<jobs, db_jobs, db_results, store, seen>>
    /\ UNCHANGED wfvars

----------------------------------------------------------------------------
(* The JobManager operations called directly, with every argument *)

ApiCreateJob(job_id) ==
    /\ create_job(job_id)
    /\ last' = [op |-> "create_job", job |-> job_id]
    /\ Observe
    /\ UNCHANGED <<db_results, store, now>>
    /\ UNCHANGED wfvars

\* get_job with any id, in the cache or not
ApiGetJob(job_id) ==
    /\ jobs' = [jobs EXCEPT ![job_id] = get_job(job_id)]
    /\ last' = [op |-> "get_job", job |-> job_id, hit |-> jobs[job_id] # NoJob,
                returned |-> get_job(job_id)]
    /\ Observe
    /\ UNCHANGED <<db_jobs, db_results, store, now>>
    /\ UNCHANGED wfvars

\* HTTPException(404): no job, no payload
http_404 ==
    [status |-> "http_404", job_status |-> None, final_report |-> None,
     researcher_findings |-> NoText, plan |-> None,
     structured_output |-> None, error |-> None]

\* A result endpoint that has a payload for COMPLETED jobs alone
result_response_completed_only(job) ==
    IF job = NoJob \/ job.status # COMPLETED THEN http_404
    ELSE [status |-> "http_200", job_status |-> job.status,
          final_report |-> job.final_report,
          researcher_findings |-> job.researcher_findings,
          plan |-> job.plan, structured_output |-> job.structured_output,
          error |-> job.error]

\* get_research_result, what it answers for the job that get_job returned
result_response(job) ==
    IF job = NoJob THEN http_404
    ELSE [status |-> "http_200", job_status |-> job.status,
          final_report |-> job.final_report,
          researcher_findings |-> job.researcher_findings,
          plan |-> job.plan, structured_output |-> job.structured_output,
          error |-> job.error]

\* get_research_result with any id
GetResearchResult(job_id) ==
    /\ jobs' = [jobs EXCEPT ![job_id] = get_job(job_id)]
    /\ last' = [op |-> "get_research_result", job |-> job_id,
                response |-> result_response(get_job(job_id))]
    /\ Observe
    /\ UNCHANGED <<db_jobs, db_results, store, now>>
    /\ UNCHANGED wfvars

\* delete_job with any id
ApiDeleteJob(job_id) ==
    /\ delete_job(job_id)
    /\ last' = [op |-> "delete_job", job |-> job_id]
    /\ UNCHANGED <<store, now, run, node, phase, state, hist>>

\* The store starts to raise on every call (the database is unreachable)
StoreFails ==
    /\ store = "ok"
    /\ store' = "failing"
    /\ last' = [op |-> "store_fails"]
    /\ UNCHANGED <<jobs, db_jobs, db_results, now, seen>>
    /\ UNCHANGED wfvars

\* The store answers again
StoreRecovers ==
    /\ store = "failing"
    /\ store' = "ok"
    /\ last' = [op |-> "store_recovers"]
    /\ UNCHANGED <<jobs, db_jobs, db_results, now, seen>>
    /\ UNCHANGED wfvars

ApiUpdateJobStatus(job_id, status) ==
    /\ jobs[job_id] # NoJob
    /\ update_job_status(job_id, status)
    /\ last' = [op |-> "update_job_status", job |-> job_id, status |-> status]
    /\ Observe
    /\ UNCHANGED <<db_results, store, now>>
    /\ UNCHANGED wfvars

ApiSetError(job_id, error) ==
    /\ jobs[job_id] # NoJob
    /\ jobs' = [jobs EXCEPT ![job_id] = set_error(@, error)]
    /\ last' = [op |-> "set_error", job |-> job_id, error |-> error]
    /\ Observe
    /\ UNCHANGED <<db_jobs, db_results, store, now>>
    /\ UNCHANGED wfvars

ApiSaveJobResult(job_id) ==
    /\ jobs[job_id] # NoJob
    /\ save_job_result(job_id, jobs[job_id])
    /\ last' = [op |-> "save_job_result", job |-> job_id]
    /\ UNCHANGED <<jobs, db_jobs, store, now, seen>>
    /\ UNCHANGED wfvars

JmInit ==
    /\ jobs = [j \in {"job_1"} |-> NoJob]
    /\ db_jobs = [j \in {"job_1"} |-> NoRow]
    /\ db_results = [j \in {"job_1"} |-> NoRow]
    /\ store \in {"none", "ok"}
    /\ now = 0
    /\ seen = [j \in {"job_1"} |-> NoJob]
    /\ last = [op |-> "init"]
    /\ tasks = [j \in {"job_1"} |-> NoTask]

----------------------------------------------------------------------------
(* The workflow: values *)

Min(a, b) == IF a < b THEN a ELSE b

RECURSIVE SeqsUpTo(_, _)
SeqsUpTo(S, n) ==
    IF n = 0 THEN {<<>>}
    ELSE LET shorter == SeqsUpTo(S, n - 1)
         IN  shorter \cup {Append(q, x) : q \in shorter, x \in S}

\* StepType: which step executor runs a step
StepTypes == {"research", "processing"}

\* What the planner's model answers (full_response).  json: json.loads of
\* the repaired text succeeds; valid: the parsed value passes
\* Plan.model_validate; steps: the step types of the plan, in order.
PlannerResponses ==
    {[json |-> FALSE, valid |-> FALSE, has_enough_context |-> FALSE,
      steps |-> <<>>]}
    \cup {[json |-> TRUE, valid |-> FALSE, has_enough_context |-> h,
           steps |-> <<>>] : h \in BOOLEAN}
    \cup {[json |-> TRUE, valid |-> TRUE, has_enough_context |-> h,
           steps |-> q] : h \in BOOLEAN, q \in SeqsUpTo(StepTypes, MaxSteps)}

\* What a step agent answers (response_content); it may be empty
AgentResponses == {"", "res_a"}

\* What the reporter's model answers
ReportResponses == {"", "report"}

\* What structured extraction yields: an object with every required field,
\* one that lacks a required field, or an exception
Extractions == {"so_full", "so_partial", "raise"}

\* interrupt_feedback of a resuming chat request
Feedbacks == {"edit_plan", "accepted", "other"}

\* Python truthiness of a string or None
Truthy(x) == x # None /\ x # ""

\* Plan.model_validate of a parsed planner response: every step starts
\* without a result
PlanOf(r) ==
    [kind |-> "plan", has_enough_context |-> r.has_enough_context,
     steps |-> [i \in 1..Len(r.steps) |->
                  [step_type |-> r.steps[i], execution_res |-> None]]]

RawPlan(r) == [kind |-> "raw", text |-> r]
NoPlan == [kind |-> "none"]

\* The index of the first step with a falsy execution_res, 0 if none
FirstUnfinished(steps) ==
    LET open == {i \in 1..Len(steps) : ~Truthy(steps[i].execution_res)}
    IN  IF open = {} THEN 0
        ELSE CHOOSE i \in open : \A k \in open : i <= k

\* workflow_input of _run_research_job and _astream_workflow_generator
workflow_input(auto, bg, skip, schema) ==
    [messages |-> <<"user">>, plan_iterations |-> 0, final_report |-> "",
     current_plan |-> NoPlan, observations |-> <<>>,
     auto_accepted_plan |-> auto, enable_background_investigation |-> bg,
     background_investigation_results |-> None,
     searches_executed |-> 0, output_schema |-> schema,
     structured_output |-> None, skip_reporting |-> skip]

NoState == [messages |-> <<>>]

\* The events of a stream: what _make_event returns
NoEvent == [type |-> "none", error |-> None, options |-> <<>>]

\* _stream_graph_events, "except Exception": the event it yields
graph_error_event ==
    [type |-> "error", error |-> "Error during graph execution",
     options |-> <<>>]

\* _make_event: the event of the type given, or an error event in its
\* place when json.dumps of its data raises
make_event(event_type, options, serializable) ==
    IF serializable
    THEN [type |-> event_type, error |-> None, options |-> options]
    ELSE [type |-> "error", error |-> "Serialization failed",
          options |-> <<>>]

\* An interrupt event that offers the acceptance alone
create_interrupt_event_accept_only ==
    make_event("interrupt", <<"accepted">>, TRUE)

\* _create_interrupt_event: the content is the text of the interrupt
create_interrupt_event ==
    make_event("interrupt", <<"edit_plan", "accepted">>, TRUE)

\* last_event: the event the stream yielded last in this invocation;
\* errors: the error events it has yielded
NoRun ==
    [mode |-> "none", job |-> None, max_plan_iterations |-> 0, supersteps |-> 0,
     resumes |-> 0, resume |-> None, skip_reporting |-> None,
     final_report_chunks |-> None, researcher_findings_chunks |-> None,
     latest_structured_output |-> None, status |-> "idle", exc |-> None,
     last_event |-> NoEvent, errors |-> 0]

JobModes == {"async", "sync"}
Roles == {"coordinator", "background_investigator", "planner",
          "human_feedback", "research_team", "researcher", "coder",
          "reporter"}

----------------------------------------------------------------------------
(* The graph's edges that are not set by a role's Command *)

\* A route out of research_team that hands a finished plan back to the
\* executor of its last step
continue_to_running_research_team_last(st) ==
    LET steps == st.current_plan.steps
        i == IF FirstUnfinished(steps) = 0 THEN Len(steps)
             ELSE FirstUnfinished(steps)
    IN  IF i = 0 THEN "reporter"
        ELSE IF steps[i].step_type = "research" THEN "researcher"
        ELSE "coder"

\* continue_to_running_research_team: the route out of research_team
continue_to_running_research_team(st) ==
    LET steps == st.current_plan.steps
        i == FirstUnfinished(steps)
    IN  IF i = 0 THEN "reporter"
        ELSE IF steps[i].step_type = "research" THEN "researcher"
        ELSE "coder"

----------------------------------------------------------------------------
(* The runner's reaction to the events of the graph *)

\* _run_research_job, "Track node transitions for status updates": the
\* status whose keyword is a substring of the node's name, by the order of
\* the elif chain
StatusForNode(name) ==
    CASE name = "coordinator" -> COORDINATING
      [] name = "planner" -> PLANNING
      [] name \in {"researcher", "coder"} -> RESEARCHING
      [] name = "reporter" -> REPORTING
      [] OTHER -> None

\* A role ends with a Command: the next role, the new state, and what the
\* job runner or the stream does with the role's output
Goto(next, st, r, op) ==
    /\ node' = next
    /\ phase' = "start"
    /\ state' = st
    /\ run' = r
    /\ last' = op
    /\ UNCHANGED tasks

InJob == run.mode \in JobModes
Running == run.status = "running"

\* on_chain_start of a role: the job runner updates the status; the graph
\* counts a superstep and stops at its recursion limit
OnChainStart ==
    /\ Running /\ phase = "start" /\ node \in Roles
    /\ run.supersteps < RecursionLimit
    /\ phase' = "run"
    /\ run' = [run EXCEPT !.supersteps = @ + 1]
    /\ hist' = hist \cup {node}
    /\ last' = [op |-> "on_chain_start", name |-> node]
    /\ IF InJob /\ StatusForNode(node) # None
       THEN /\ update_job_status(run.job, StatusForNode(node))
            /\ Observe
       ELSE UNCHANGED <<jobs, db_jobs, seen>>
    /\ UNCHANGED <<db_results, store, now, node, state, tasks>>


\* The runner has returned: its locals and the graph's state are gone
Returned(r, status, e) ==
    [NoRun EXCEPT !.mode = r.mode, !.job = r.job, !.status = status,
                  !.exc = e]

\* A stream that closes on an exception without a word
closed_stream_silently(r, e) ==
    [Returned(r, "closed", e) EXCEPT !.errors = r.errors]

\* _stream_graph_events, "except Exception": the stream yields the error
\* event and ends
closed_stream(r, e) ==
    [Returned(r, "closed", e) EXCEPT !.last_event = graph_error_event,
                                     !.errors = r.errors + 1]

\* An exception leaves the graph.  _run_research_job catches it and marks
\* the job; _stream_graph_events catches it and closes the stream.
Raise(e, op) ==
    /\ last' = op
    /\ IF InJob
       THEN /\ jobs' = [jobs EXCEPT ![run.job] = set_error(@, e)]
            /\ run' = Returned(run, "failed", e)
            /\ Observe
       ELSE /\ run' = IF run.mode = "stream" THEN closed_stream(run, e)
                      ELSE Returned(run, "closed", e)
            /\ UNCHANGED <<jobs, seen>>
    /\ node' = "none"
    /\ phase' = "done"
    /\ state' = NoState
    /\ hist' = {}
    /\ UNCHANGED <<db_jobs, db_results, store, now, tasks>>

\* The graph stops at its recursion limit with GraphRecursionError
GraphRecursionLimit ==
    /\ Running /\ phase = "start" /\ node \in Roles
    /\ run.supersteps >= RecursionLimit
    /\ Raise("GraphRecursionError", [op |-> "recursion_limit"])

\* Any role may fail with an exception of its collaborators
RoleRaises ==
    /\ Running /\ phase = "run" /\ node \in Roles
    /\ \E e \in Errors : Raise(e, [op |-> "raise", name |-> node, error |-> e])

----------------------------------------------------------------------------
(* The roles (src/graph/nodes.py) *)

\* coordinator_node, outside person search
CoordinatorNode ==
    /\ Running /\ phase = "run" /\ node = "coordinator"
    /\ \E handoff \in BOOLEAN, content \in BOOLEAN :
         LET goto == IF ~handoff THEN "__end__"
                     ELSE IF state.enable_background_investigation
                          THEN "background_investigator"
                          ELSE "planner"
             st == [state EXCEPT !.messages =
                       IF content THEN Append(@, "coordinator") ELSE @]
         IN  Goto(goto, st, run, [op |-> "coordinator", goto |-> goto])
    /\ UNCHANGED <<jobs, db_jobs, db_results, store, now, seen, hist>>

\* background_investigation_node, then the edge to planner
BackgroundInvestigationNode ==
    /\ Running /\ phase = "run" /\ node = "background_investigator"
    /\ Goto("planner",
            [state EXCEPT !.background_investigation_results = "results"],
            run, [op |-> "background_investigator"])
    /\ UNCHANGED <<jobs, db_jobs, db_results, store, now, seen, hist>>

\* _run_research_job, "Collect plan data": the planner's message is kept
\* as the job's plan when it holds a JSON object
CollectPlan(r) ==
    IF InJob /\ r.json
    THEN jobs' = [jobs EXCEPT ![run.job].plan = "plan"] /\ Observe
    ELSE UNCHANGED <<jobs, seen>>

\* A ceiling test that lets the planner run once more
at_ceiling_exclusive(st, max_plan_iterations) ==
    st.plan_iterations > max_plan_iterations

\* planner_node, "if the plan iterations is greater than the max plan
\* iterations"
at_ceiling(st, max_plan_iterations) ==
    st.plan_iterations >= max_plan_iterations

\* A parse failure that always hands over to the reporter
parse_failure_goto_reporter(st) == "reporter"

\* planner_node, the route when the response is not JSON
parse_failure_goto(st) ==
    IF st.plan_iterations > 0 THEN "reporter" ELSE "__end__"

\* A planner whose ceiling route never looks at skip_reporting
planner_goto_ignoring_skip(st, max_plan_iterations, r) ==
    IF at_ceiling(st, max_plan_iterations) THEN "reporter"
    ELSE IF ~r.json THEN parse_failure_goto(st)
    ELSE IF r.has_enough_context
    THEN IF st.skip_reporting THEN "__end__" ELSE "reporter"
    ELSE "human_feedback"

\* planner_node, the route chosen for the response r
planner_goto(st, max_plan_iterations, r) ==
    IF at_ceiling(st, max_plan_iterations)
    THEN IF st.skip_reporting THEN "__end__" ELSE "reporter"
    ELSE IF ~r.json
    THEN parse_failure_goto(st)
    ELSE IF r.has_enough_context
    THEN IF st.skip_reporting THEN "__end__" ELSE "reporter"
    ELSE "human_feedback"

\* planner_node, the state update that goes with the response r
planner_update(st, max_plan_iterations, r) ==
    IF at_ceiling(st, max_plan_iterations) \/ ~r.json THEN st
    ELSE [st EXCEPT !.messages = Append(@, "planner"),
                    !.current_plan = IF r.has_enough_context
                                     THEN PlanOf(r) ELSE RawPlan(r)]

\* planner_node at the iteration ceiling: the model is not asked
PlannerCeiling ==
    /\ Running /\ phase = "run" /\ node = "planner"
    /\ at_ceiling(state, run.max_plan_iterations)
    /\ LET r == CHOOSE x \in PlannerResponses : ~x.json
       IN  Goto(planner_goto(state, run.max_plan_iterations, r),
                planner_update(state, run.max_plan_iterations, r), run,
                [op |-> "planner", case |-> "ceiling"])
    /\ UNCHANGED <<jobs, db_jobs, db_results, store, now, seen, hist>>

\* planner_node below the ceiling, for every response of the model
PlannerNode ==
    /\ Running /\ phase = "run" /\ node = "planner"
    /\ ~at_ceiling(state, run.max_plan_iterations)
    /\ \E r \in PlannerResponses :
         IF r.json /\ r.has_enough_context /\ ~r.valid
         THEN \* Plan.model_validate raises
              Raise("ValidationError", [op |-> "planner", case |-> "raise",
                                        out |-> r])
         ELSE /\ Goto(planner_goto(state, run.max_plan_iterations, r),
                      planner_update(state, run.max_plan_iterations, r), run,
                      [op |-> "planner", case |-> "response", out |-> r])
              /\ CollectPlan(r)
              /\ hist' = IF r.json THEN hist ELSE hist \cup {"parse_failed"}
              /\ UNCHANGED <<db_jobs, db_results, store, now>>

\* human_feedback_node suspended by interrupt(): the invocation of the
\* graph ends and the thread waits at human_feedback
HumanFeedbackInterrupt ==
    /\ Running /\ phase = "run" /\ node = "human_feedback"
    /\ ~state.auto_accepted_plan /\ run.resume = None
    /\ phase' = "interrupted"
    /\ hist' = hist \cup {"interrupt"}
    /\ last' = [op |-> "interrupt"]
    /\ run' = IF run.mode = "stream"
              THEN [run EXCEPT !.last_event = create_interrupt_event]
              ELSE run
    /\ UNCHANGED <<jobs, db_jobs, db_results, store, now, seen, node, state,
                   tasks>>

\* human_feedback_node once the plan is accepted: the route and update
human_feedback_goto(st) ==
    LET text == st.current_plan.text
    IN  IF ~text.json
        THEN IF st.plan_iterations + 1 > 1
             THEN IF st.skip_reporting THEN "__end__" ELSE "reporter"
             ELSE "__end__"
        ELSE "research_team"

human_feedback_update(st) ==
    LET text == st.current_plan.text
    IN  IF ~text.json THEN st
        ELSE [st EXCEPT !.current_plan = PlanOf(text),
                        !.plan_iterations = @ + 1]

\* _astream_workflow_generator, resume_msg: the interrupt_feedback of the
\* request in brackets, then the content of its last message.  A text is
\* the sequence of its parts.
resume_msg(interrupt_feedback) == <<"[", interrupt_feedback, "]", " ", "user">>

\* str.upper on the parts of a text
upper(text) ==
    [i \in DOMAIN text |->
       CASE text[i] = "edit_plan" -> "EDIT_PLAN"
         [] text[i] = "accepted" -> "ACCEPTED"
         [] text[i] = "other" -> "OTHER"
         [] text[i] = "user" -> "USER"
         [] OTHER -> text[i]]

\* str.startswith
startswith(text, prefix) ==
    Len(text) >= Len(prefix) /\ SubSeq(text, 1, Len(prefix)) = prefix

\* A test for "[EDIT_PLAN]" that minds the case of the resume value
is_edit_plan_case_sensitive(feedback) ==
    startswith(resume_msg(feedback), <<"[", "EDIT_PLAN", "]">>)

\* human_feedback_node, the test for "[EDIT_PLAN]" on the resume value of
\* the request whose interrupt_feedback is feedback
is_edit_plan(feedback) ==
    startswith(upper(resume_msg(feedback)), <<"[", "EDIT_PLAN", "]">>)

\* A test that takes every resume value for an acceptance
is_accepted_any(feedback) == feedback # None

\* human_feedback_node, the test for "[ACCEPTED]"
is_accepted(feedback) ==
    startswith(upper(resume_msg(feedback)), <<"[", "ACCEPTED", "]">>)

\* human_feedback_node with an auto-accepted plan or with a resume value
HumanFeedbackNode ==
    /\ Running /\ phase = "run" /\ node = "human_feedback"
    /\ state.auto_accepted_plan \/ run.resume # None
    /\ LET feedback == IF state.auto_accepted_plan THEN "accepted"
                       ELSE run.resume
           r == [run EXCEPT !.resume = None]
           op == [op |-> "human_feedback", feedback |-> feedback]
       IN  IF ~state.auto_accepted_plan /\ is_edit_plan(feedback)
           THEN /\ Goto("planner",
                        [state EXCEPT !.messages = Append(@, "feedback")],
                        r, op)
                /\ UNCHANGED <<jobs, db_jobs, db_results, store, now, seen,
                               hist>>
           ELSE IF ~state.auto_accepted_plan /\ ~is_accepted(feedback)
           THEN \* TypeError: interrupt value is not supported
                Raise("TypeError", op)
           ELSE IF state.current_plan.text.json /\ ~state.current_plan.text.valid
           THEN \* Plan.model_validate raises
                Raise("ValidationError", op)
           ELSE /\ Goto(human_feedback_goto(state),
                        human_feedback_update(state), r, op)
                /\ hist' = hist \cup {"accepted"}
                /\ UNCHANGED <<jobs, db_jobs, db_results, store, now, seen>>

\* research_team_node does nothing; the conditional edge routes
ResearchTeamNode ==
    /\ Running /\ phase = "run" /\ node = "research_team"
    /\ LET goto == continue_to_running_research_team(state)
       IN  Goto(goto, state, run, [op |-> "research_team", goto |-> goto])
    /\ UNCHANGED <<jobs, db_jobs, db_results, store, now, seen, hist>>

\* An executor that takes the last step without a result
current_step_last(st) ==
    LET steps == st.current_plan.steps
    IN  IF \A i \in 1..Len(steps) : Truthy(steps[i].execution_res) THEN 0
        ELSE CHOOSE i \in 1..Len(steps) :
                /\ ~Truthy(steps[i].execution_res)
                /\ \A k \in (i + 1)..Len(steps) :
                      Truthy(steps[k].execution_res)

\* _execute_agent_step, "Find the first unexecuted step": the loop stops at
\* the first step whose execution_res is falsy; 0 when it finds none
current_step(st) ==
    LET steps == st.current_plan.steps
    IN  IF \A i \in 1..Len(steps) : Truthy(steps[i].execution_res) THEN 0
        ELSE CHOOSE i \in 1..Len(steps) :
                /\ ~Truthy(steps[i].execution_res)
                /\ \A k \in 1..(i - 1) : Truthy(steps[k].execution_res)

\* _execute_agent_step, then researcher_node's search counter
execute_agent_step(st, agent_name, response_content) ==
    LET i == current_step(st)
        counted == IF agent_name = "researcher"
                   THEN [st EXCEPT !.searches_executed = @ + 1] ELSE st
    IN  IF i = 0 THEN counted
        ELSE [counted EXCEPT
                !.current_plan.steps[i].execution_res = response_content,
                !.messages = Append(@, agent_name),
                !.observations = Append(@, response_content)]

\* researcher_node and coder_node
StepExecutorNode ==
    /\ Running /\ phase = "run" /\ node \in {"researcher", "coder"}
    /\ \E response_content \in AgentResponses :
         Goto("research_team",
              execute_agent_step(state, node, response_content),
              IF InJob /\ response_content # "" /\ current_step(state) # 0
              THEN [run EXCEPT !.researcher_findings_chunks = "chunks"]
              ELSE run,
              [op |-> "execute_step", agent |-> node,
               step |-> current_step(state), out |-> response_content])
    /\ hist' = hist \cup {"step_executed"}
    /\ UNCHANGED <<jobs, db_jobs, db_results, store, now, seen>>

\* A reporter that lets the failure of the extraction show in its output
reporter_structured_output_unguarded(output_schema, ext) ==
    IF output_schema = None THEN None ELSE ext

\* reporter_node, "Generate structured output if schema provided": the
\* object the extraction returns, as it is; None without a schema and when
\* the extraction raises
reporter_structured_output(output_schema, ext) ==
    IF output_schema = None \/ ext = "raise" THEN None ELSE ext

\* reporter_node, then the edge to the end of the graph
ReporterNode ==
    /\ Running /\ phase = "run" /\ node = "reporter"
    /\ IF state.current_plan.kind # "plan"
       THEN \* current_plan.title / .thought: AttributeError
            Raise("AttributeError", [op |-> "reporter", case |-> "raise"])
       ELSE \E response_content \in ReportResponses, ext \in Extractions :
              LET structured_output ==
                      reporter_structured_output(state.output_schema, ext)
              IN  /\ state.output_schema = None => ext = "raise"
                  /\ Goto("__end__",
                          [state EXCEPT !.final_report = response_content,
                                        !.structured_output = structured_output],
                          IF InJob
                          THEN [run EXCEPT
                                  !.final_report_chunks =
                                      IF response_content # ""
                                      THEN response_content ELSE @,
                                  !.latest_structured_output = structured_output]
                          ELSE run,
                          [op |-> "reporter", case |-> "report",
                           out |-> response_content, ext |-> ext])
                  /\ UNCHANGED <<jobs, db_jobs, db_results, store, now, seen,
                                 hist>>


----------------------------------------------------------------------------
(* Person search (src/graph/nodes.py) *)

\* A candidate the model extracts; one of them lacks the name
Candidates == {"cand_a", "cand_b", "cand_noname"}

\* candidates_data.get("candidates", []) for every answer of the model
CandidateLists == SeqsUpTo(Candidates, MaxCandidates)

\* A list field of the State that is None
NoCandidates == <<"None">>

\* workflow_input of a person search
person_workflow_input(quick) ==
    [messages |-> <<"user">>, plan_iterations |-> 0, final_report |-> "",
     observations |-> <<>>, auto_accepted_plan |-> TRUE,
     enable_background_investigation |-> FALSE, searches_executed |-> 0,
     output_schema |-> "schema", research_topic |-> "query",
     person_search_mode |-> TRUE, quick_research_mode |-> quick,
     disambiguation_candidates |-> NoCandidates,
     selected_candidate |-> None, enriched_person_query |-> None]

\* A disambiguator that takes the first of several candidates
disambiguator_update_guessing(st, candidates) ==
    [st EXCEPT !.enriched_person_query = "enriched",
               !.selected_candidate = candidates[1],
               !.disambiguation_candidates =
                   IF Len(candidates) = 1 THEN NoCandidates ELSE candidates,
               !.research_topic = "enriched",
               !.observations = IF st.quick_research_mode
                                THEN <<candidates[1]>> ELSE @]

\* person_disambiguator_node, the update for one or more candidates
disambiguator_update(st, candidates) ==
    IF Len(candidates) = 1
    THEN [st EXCEPT !.enriched_person_query = "enriched",
                    !.selected_candidate = candidates[1],
                    !.disambiguation_candidates = NoCandidates,
                    !.research_topic = "enriched",
                    !.observations = IF st.quick_research_mode
                                     THEN <<candidates[1]>> ELSE @]
    ELSE [st EXCEPT !.disambiguation_candidates = candidates,
                    !.enriched_person_query = None,
                    !.selected_candidate = None]

\* person_disambiguator_node, the route for one or more candidates
disambiguator_goto(st, candidates) ==
    IF Len(candidates) = 1
    THEN IF st.quick_research_mode THEN "reporter" ELSE "planner"
    ELSE "__end__"

\* person_disambiguator_node
PersonDisambiguatorNode ==
    /\ Running /\ phase = "run" /\ node = "person_disambiguator"
    /\ \E candidates \in CandidateLists :
         LET op == [op |-> "person_disambiguator", candidates |-> candidates]
         IN  IF Len(candidates) = 0
             THEN \* "Could not identify person matching ..."
                  Raise("ValueError", op)
             ELSE IF Len(candidates) = 1 /\ candidates[1] = "cand_noname"
             THEN \* candidate['name']
                  Raise("KeyError", op)
             ELSE /\ Goto(disambiguator_goto(state, candidates),
                          disambiguator_update(state, candidates), run, op)
                  /\ UNCHANGED <<jobs, db_jobs, db_results, store, now, seen,
                                 hist>>

----------------------------------------------------------------------------
(* The job endpoints and the job runner (src/server/app.py) *)

\* skip_reporting as a request body gives it: the field is absent, null,
\* true or false
SkipGiven == {"absent", None, "True", "False"}

\* AsyncResearchRequest.skip_reporting: an absent field takes the default
\* of the model, False
request_skip_reporting(given) == IF given = "absent" THEN "False" ELSE given

Idle == run.status \in {"idle", "completed", "failed", "closed"}
        \/ (run.mode = "stream" /\ phase = "interrupted")

NewRun(mode, job_id, max_plan_iterations, skip) ==
    [NoRun EXCEPT !.mode = mode, !.job = job_id,
                  !.max_plan_iterations = max_plan_iterations,
                  !.skip_reporting = skip, !.status = "created"]

\* start_async_research and sync_research up to the start of
\* _run_research_job; sync_research turns a skip_reporting of None into true
StartResearch(mode, job_id) ==
    /\ Idle
    /\ create_job(job_id)
    /\ \E auto \in BOOLEAN, bg \in BOOLEAN, given \in SkipGiven,
          schema \in {None, "schema"}, max \in 0..MaxIter :
         LET skip == request_skip_reporting(given)
             skip_reporting == IF mode = "sync" /\ skip = None THEN "True"
                               ELSE skip
         IN  /\ run' = NewRun(mode, job_id, max, skip_reporting)
             /\ state' = workflow_input(auto, bg, skip_reporting = "True",
                                        schema)
             /\ last' = [op |-> "start_research", mode |-> mode,
                         job |-> job_id, skip_given |-> given]
    /\ node' = "coordinator"
    /\ phase' = "start"
    /\ hist' = {}
    /\ Observe
    /\ UNCHANGED <<db_results, store, now, tasks>>

StartAsyncResearch == \E job_id \in JobIds : StartResearch("async", job_id)

SyncResearch == \E job_id \in JobIds : StartResearch("sync", job_id)

\* _run_research_job up to the first event of the graph
RunBegin ==
    /\ InJob /\ run.status = "created"
    /\ jobs' = [jobs EXCEPT ![run.job] =
                  [update_status(@, COORDINATING) EXCEPT !.thread_id = "thread"]]
    /\ db_jobs' = IF store = "ok"
                  THEN store_update_job_status(db_jobs, run.job, COORDINATING,
                                               now)
                  ELSE db_jobs
    /\ run' = [run EXCEPT !.status = "running"]
    /\ last' = [op |-> "run_begin", job |-> run.job]
    /\ Observe
    /\ UNCHANGED <<db_results, store, now, node, phase, state, hist, tasks>>

\* _run_research_job after the last event: the job's fields ("Mark as
\* completed")
finished_job(job, r, final_state) ==
    LET findings ==
            IF r.skip_reporting = "True"
            THEN IF final_state.observations # <<>>
                 THEN final_state.observations
                 ELSE job.researcher_findings
            ELSE IF r.researcher_findings_chunks # None
                 THEN <<r.researcher_findings_chunks>> ELSE NoText
        structured ==
            IF Truthy(r.latest_structured_output)
            THEN r.latest_structured_output
            ELSE IF Truthy(final_state.structured_output)
                 THEN final_state.structured_output
                 ELSE job.structured_output
    IN  [job EXCEPT !.final_report = r.final_report_chunks,
                    !.researcher_findings = findings,
                    !.structured_output = structured]

\* _run_research_job from the end of the event loop to its return
RunFinish ==
    /\ InJob /\ Running
    /\ node = "__end__" \/ phase = "interrupted"
    /\ LET job == update_status(finished_job(jobs[run.job], run, state),
                                COMPLETED)
       IN  /\ jobs' = [jobs EXCEPT ![run.job] = job]
           /\ \E at \in StoreClock :
                 db_jobs' = IF store = "ok"
                            THEN store_update_job_status(db_jobs, run.job,
                                                         COMPLETED, at)
                            ELSE db_jobs
           /\ save_job_result(run.job, job)
    /\ run' = Returned(run, "completed", None)
    /\ node' = "none"
    /\ phase' = "done"
    /\ state' = NoState
    /\ hist' = {}
    /\ last' = [op |-> "run_finish", job |-> run.job]
    /\ Observe
    /\ UNCHANGED <<store, now, tasks>>

----------------------------------------------------------------------------
(* Several jobs at once (src/server/app.py): each job has its own run of   *)
(* _run_research_job, which takes a step whenever the graph hands it an    *)
(* event; the events of the graph are the inputs of the run.               *)

\* The run of job_id works on the job object it was given; the cache shows
\* that object for as long as it holds the job
TaskWrites(job_id, job) ==
    /\ jobs' = [jobs EXCEPT ![job_id] = IF @ # NoJob THEN job ELSE @]
    /\ Observe

\* _run_research_job up to the first event of the graph, on the job given
begun(job) == [update_status(job, COORDINATING) EXCEPT !.thread_id = "thread"]

\* start_async_research, which schedules the run as the job's task, and
\* sync_research, which runs it in the request up to its first suspension
StartTask(mode, job_id) ==
    /\ jobs[job_id] = NoJob /\ db_jobs[job_id] = NoRow /\ seen[job_id] = NoJob
    /\ LET job == IF mode = "sync" THEN begun(ResearchJob) ELSE ResearchJob
           created == store_create_job(db_jobs, job_id)
       IN  /\ jobs' = [jobs EXCEPT ![job_id] = job]
           /\ tasks' = [tasks EXCEPT ![job_id] =
                          [mode |-> mode,
                           status |-> IF mode = "sync" THEN "running"
                                      ELSE "created",
                           job |-> job]]
           /\ db_jobs' = IF store # "ok" THEN db_jobs
                         ELSE IF mode = "sync"
                         THEN store_update_job_status(created, job_id,
                                                      COORDINATING, now)
                         ELSE created
    /\ last' = [op |-> "start_task", mode |-> mode, job |-> job_id]
    /\ Observe
    /\ UNCHANGED <<db_results, store, now, run, node, phase, state, hist>>

\* The task of an async job starts to run
TaskBegin(job_id) ==
    /\ tasks[job_id].mode = "async" /\ tasks[job_id].status = "created"
    /\ LET job == begun(tasks[job_id].job)
       IN  /\ tasks' = [tasks EXCEPT ![job_id].status = "running",
                                     ![job_id].job = job]
           /\ TaskWrites(job_id, job)
    /\ db_jobs' = IF store = "ok"
                  THEN store_update_job_status(db_jobs, job_id, COORDINATING,
                                               now)
                  ELSE db_jobs
    /\ last' = [op |-> "task_begin", job |-> job_id]
    /\ UNCHANGED <<db_results, store, now, run, node, phase, state, hist>>

\* The run handles on_chain_start of a role, or on_chain_end of the planner
\* with a plan in its message
TaskEvent(job_id) ==
    /\ tasks[job_id].status = "running"
    /\ \E name \in Roles, event \in {"on_chain_start", "on_chain_end"} :
         /\ event = "on_chain_start" => StatusForNode(name) # None
         /\ event = "on_chain_end" => name = "planner"
         /\ LET job == IF event = "on_chain_start"
                       THEN update_status(tasks[job_id].job,
                                          StatusForNode(name))
                       ELSE [tasks[job_id].job EXCEPT !.plan = "plan"]
            IN  /\ tasks' = [tasks EXCEPT ![job_id].job = job]
                /\ TaskWrites(job_id, job)
                /\ db_jobs' = IF store = "ok" /\ event = "on_chain_start"
                              THEN store_update_job_status(
                                       db_jobs, job_id, job.status, now)
                              ELSE db_jobs
         /\ last' = [op |-> "task_event", job |-> job_id, event |-> event,
                     name |-> name]
    /\ UNCHANGED <<db_results, store, now, run, node, phase, state, hist>>

\* The graph has ended: the run marks the job completed and saves it
TaskFinish(job_id) ==
    /\ tasks[job_id].status = "running"
    /\ \E final_report \in {None, "report"} :
         LET job == update_status(
                        [tasks[job_id].job EXCEPT !.final_report = final_report],
                        COMPLETED)
         IN  /\ tasks' = [tasks EXCEPT ![job_id].status = "done",
                                       ![job_id].job = job]
             /\ TaskWrites(job_id, job)
             /\ \E at \in StoreClock :
                   db_jobs' = IF store = "ok"
                              THEN store_update_job_status(db_jobs, job_id,
                                                           COMPLETED, at)
                              ELSE db_jobs
             /\ save_job_result(job_id, job)
    /\ last' = [op |-> "task_finish", job |-> job_id]
    /\ UNCHANGED <<store, now, run, node, phase, state, hist>>

\* A failure that marks every job that is running
fail_every_job(job_id, e) ==
    [j \in JobIds |->
       IF tasks[j].status = "running"
       THEN [tasks[j] EXCEPT !.status = "done", !.job = set_error(@, e)]
       ELSE tasks[j]]

\* _run_research_job, "except Exception": the run marks its own job
fail_job(job_id, e) ==
    [tasks EXCEPT ![job_id].status = "done", ![job_id].job = set_error(@, e)]

\* An exception leaves the graph of job_id
TaskRaises(job_id) ==
    /\ tasks[job_id].status = "running"
    /\ \E e \in Errors :
         /\ tasks' = fail_job(job_id, e)
         /\ last' = [op |-> "task_raise", job |-> job_id, error |-> e]
    /\ jobs' = [j \in JobIds |->
                  IF jobs[j] # NoJob /\ tasks'[j] # tasks[j]
                  THEN tasks'[j].job ELSE jobs[j]]
    /\ Observe
    /\ UNCHANGED <<db_jobs, db_results, store, now, run, node, phase, state,
                   hist>>

\* cancel_research_job: 404 unless get_job finds the job; then delete_job.
\* The task that is cancelled gets CancelledError at its suspension point,
\* which "except Exception" does not catch: it takes no further step.
CancelResearchJob(job_id) ==
    /\ get_job(job_id) # NoJob
    /\ delete_job(job_id)
    /\ last' = [op |-> "delete_job", job |-> job_id]
    /\ UNCHANGED <<store, now, run, node, phase, state, hist>>

----------------------------------------------------------------------------
(* Quick person research (src/server/app.py) *)

\* What a request answered with HTTPException(500, detail) returns
http_500(detail) ==
    [status |-> "http_500", detail |-> detail, candidates |-> NoCandidates,
     final_report |-> None, selected_candidate |-> None]

\* quick_research_person, for a person for whom the searches and the model
\* hold the candidates given.  The name quick_research_graph is not bound
\* in the module (its assignment is a comment), so the statement that
\* iterates its events raises NameError before the graph runs; the handler
\* catches it, creates a second job and marks that one.
QuickResearchPerson ==
    \E job_id \in JobIds, failed_id \in JobIds, candidates \in CandidateLists :
       /\ job_id # failed_id
       /\ \A j \in {job_id, failed_id} :
             jobs[j] = NoJob /\ db_jobs[j] = NoRow /\ seen[j] = NoJob
       /\ jobs' = [jobs EXCEPT
                     ![job_id] = [update_status(ResearchJob, COORDINATING)
                                    EXCEPT !.thread_id = "thread"],
                     ![failed_id] = set_error(ResearchJob, "NameError")]
       /\ db_jobs' = IF store = "ok"
                     THEN store_create_job(
                              store_update_job_status(
                                  store_create_job(db_jobs, job_id),
                                  job_id, COORDINATING, now),
                              failed_id)
                     ELSE db_jobs
       /\ last' = [op |-> "quick_research_person", job |-> job_id,
                   failed_job |-> failed_id, candidates |-> candidates,
                   response |-> http_500("NameError")]
       /\ Observe
       /\ UNCHANGED <<db_results, store, now>>
       /\ UNCHANGED wfvars

----------------------------------------------------------------------------
(* The chat stream (src/server/app.py) *)

\* chat_stream with a new conversation
ChatStream ==
    /\ Idle
    /\ \E auto \in BOOLEAN, bg \in BOOLEAN, schema \in {None, "schema"},
          max \in 0..MaxIter :
         /\ run' = [NewRun("stream", None, max, None) EXCEPT !.status = "running"]
         /\ state' = workflow_input(auto, bg, FALSE, schema)
    /\ node' = "coordinator"
    /\ phase' = "start"
    /\ hist' = {}
    /\ last' = [op |-> "chat_stream"]
    /\ UNCHANGED tasks
    /\ UNCHANGED jmvars

\* chat_stream on an interrupted thread with interrupt_feedback: the graph
\* is invoked with Command(resume=...)
ChatResume ==
    /\ run.mode = "stream" /\ Running /\ phase = "interrupted"
    /\ run.resumes < MaxResumes
    /\ \E feedback \in Feedbacks :
         /\ run' = [run EXCEPT !.resume = feedback, !.resumes = @ + 1,
                               !.supersteps = 0, !.last_event = NoEvent,
                               !.errors = 0]
         /\ last' = [op |-> "chat_resume", feedback |-> feedback]
    /\ phase' = "start"
    /\ UNCHANGED <<node, state, hist, tasks>>
    /\ UNCHANGED jmvars

\* _stream_graph_events on a message of the role that is running: the
\* event of _process_message_chunk, through _make_event
StreamMessage ==
    /\ run.mode = "stream" /\ Running /\ phase = "run" /\ node \in Roles
    /\ \E event_type \in {"message_chunk"}, serializable \in BOOLEAN :
         LET event == make_event(event_type, <<>>, serializable)
         IN  /\ event.type = "error" => run.errors < MaxErrors
             /\ run' = [run EXCEPT
                          !.last_event = event,
                          !.errors = IF event.type = "error" THEN @ + 1
                                     ELSE @]
             /\ last' = [op |-> "stream_message", event |-> event]
    /\ UNCHANGED <<node, phase, state, hist, tasks>>
    /\ UNCHANGED jmvars

\* _stream_graph_events when the graph has ended
StreamEnd ==
    /\ run.mode = "stream" /\ Running /\ node = "__end__"
    /\ run' = Returned(run, "closed", None)
    /\ node' = "none"
    /\ phase' = "done"
    /\ state' = NoState
    /\ hist' = {}
    /\ last' = [op |-> "stream_end"]
    /\ UNCHANGED tasks
    /\ UNCHANGED jmvars

----------------------------------------------------------------------------
(* The server *)

Init ==
    /\ JmInit
    /\ run = NoRun
    /\ node = "none"
    /\ phase = "done"
    /\ state = NoState
    /\ hist = {}

Next ==
    \/ StartAsyncResearch
    \/ SyncResearch
    \/ RunBegin
    \/ OnChainStart
    \/ GraphRecursionLimit
    \/ RoleRaises
    \/ CoordinatorNode
    \/ BackgroundInvestigationNode
    \/ PlannerCeiling
    \/ PlannerNode
    \/ HumanFeedbackInterrupt
    \/ HumanFeedbackNode
    \/ ResearchTeamNode
    \/ StepExecutorNode
    \/ ReporterNode
    \/ RunFinish
    \/ \E job_id \in JobIds : GetJob(job_id)
    \/ CleanupOldJobs
    \/ Tick

Spec == Init /\ [][Next]_vars

\* The chat stream alone
ChatNext ==
    \/ ChatStream
    \/ ChatResume
    \/ StreamEnd
    \/ OnChainStart
    \/ GraphRecursionLimit
    \/ RoleRaises
    \/ CoordinatorNode
    \/ BackgroundInvestigationNode
    \/ PlannerCeiling
    \/ PlannerNode
    \/ HumanFeedbackInterrupt
    \/ HumanFeedbackNode
    \/ ResearchTeamNode
    \/ StepExecutorNode
    \/ ReporterNode

SpecChat == Init /\ [][ChatNext]_vars

\* The chat stream with the events it yields
StreamNext ==
    \/ ChatNext
    \/ StreamMessage

SpecStream == Init /\ [][StreamNext]_vars

\* The JobManager called directly
ApiNext ==
    \/ \E job_id \in JobIds : ApiCreateJob(job_id)
    \/ \E job_id \in JobIds, status \in ResearchStatus :
         ApiUpdateJobStatus(job_id, status)
    \/ \E job_id \in JobIds, error \in Errors : ApiSetError(job_id, error)
    \/ \E job_id \in JobIds : ApiSaveJobResult(job_id)
    \/ \E job_id \in JobIds : ApiGetJob(job_id)
    \/ \E job_id \in JobIds : ApiDeleteJob(job_id)
    \/ \E job_id \in JobIds : GetResearchResult(job_id)
    \/ StoreFails
    \/ StoreRecovers
    \/ CleanupOldJobs
    \/ Tick

SpecApi == Init /\ [][ApiNext]_vars

\* The sweep over jobs that run to an end, followed for a month
SweepNext ==
    \/ \E job_id \in JobIds : ApiCreateJob(job_id)
    \/ \E job_id \in JobIds, status \in {RESEARCHING, COMPLETED, FAILED} :
         ApiUpdateJobStatus(job_id, status)
    \/ \E job_id \in JobIds : ApiSaveJobResult(job_id)
    \/ \E job_id \in JobIds : ApiGetJob(job_id)
    \/ CleanupOldJobs
    \/ Wait

SpecSweep == Init /\ [][SweepNext]_vars

\* SupabaseJobStore.delete_old_jobs called with any days on any date, on a
\* server that has restarted (the cache is empty) over a store that holds a
\* job of an earlier day: a job that ended has the time of its end, a job
\* that did not has none
DeleteOldJobs ==
    /\ store = "ok"
    /\ \E days \in 1..MaxDays :
         /\ db_jobs' = delete_old_jobs(db_jobs, days)
         /\ last' = [op |-> "delete_old_jobs", days |-> days,
                     count |-> Cardinality({j \in JobIds :
                                              /\ db_jobs[j] # NoRow
                                              /\ db_jobs'[j] = NoRow})]
    /\ db_results' = [j \in JobIds |->
                        IF db_jobs'[j] = NoRow THEN NoRow ELSE db_results[j]]
    /\ UNCHANGED <<jobs, store, now, seen>>
    /\ UNCHANGED wfvars

OldInit ==
    /\ jobs = [j \in {"job_1"} |-> NoJob]
    /\ db_results = [j \in {"job_1"} |-> NoRow]
    /\ store = "ok"
    /\ seen = [j \in {"job_1"} |-> NoJob]
    /\ last = [op |-> "init"]
    /\ tasks = [j \in {"job_1"} |-> NoTask]
    /\ run = NoRun
    /\ node = "none"
    /\ phase = "done"
    /\ state = NoState
    /\ hist = {}
    /\ \E d \in 0..MaxDate, c \in 0..MaxDate, status \in ResearchStatus :
         /\ c <= d
         /\ now = 24 * d
         /\ db_jobs = [j \in {"job_1"} |->
                         [status |-> status, error |-> None,
                          completed_at |->
                              IF status \in {COMPLETED, FAILED}
                              THEN 24 * c ELSE NoTime]]

OldNext ==
    \/ DeleteOldJobs

SpecOld == OldInit /\ [][OldNext]_vars

\* Two jobs, each with its run, and the deletion of jobs
TasksInit ==
    /\ jobs = [j \in {"job_1", "job_2"} |-> NoJob]
    /\ db_jobs = [j \in {"job_1", "job_2"} |-> NoRow]
    /\ db_results = [j \in {"job_1", "job_2"} |-> NoRow]
    /\ store \in {"none", "ok"}
    /\ now = 0
    /\ seen = [j \in {"job_1", "job_2"} |-> NoJob]
    /\ last = [op |-> "init"]
    /\ run = NoRun
    /\ node = "none"
    /\ phase = "done"
    /\ state = NoState
    /\ hist = {}
    /\ tasks = [j \in {"job_1", "job_2"} |-> NoTask]

TasksNext ==
    \/ \E job_id \in JobIds : StartTask("async", job_id)
    \/ \E job_id \in JobIds : StartTask("sync", job_id)
    \/ \E job_id \in JobIds : TaskBegin(job_id)
    \/ \E job_id \in JobIds : TaskEvent(job_id)
    \/ \E job_id \in JobIds : TaskFinish(job_id)
    \/ \E job_id \in JobIds : TaskRaises(job_id)
    \/ \E job_id \in JobIds : CancelResearchJob(job_id)

SpecTasks == TasksInit /\ [][TasksNext]_vars

\* The quick person research endpoint, the reads of its jobs and the sweep
PersonInit ==
    /\ jobs = [j \in {"job_1", "job_2"} |-> NoJob]
    /\ db_jobs = [j \in {"job_1", "job_2"} |-> NoRow]
    /\ db_results = [j \in {"job_1", "job_2"} |-> NoRow]
    /\ store \in {"none", "ok"}
    /\ now = 0
    /\ seen = [j \in {"job_1", "job_2"} |-> NoJob]
    /\ last = [op |-> "init"]
    /\ run = NoRun
    /\ node = "none"
    /\ phase = "done"
    /\ state = NoState
    /\ hist = {}
    /\ tasks = [j \in {"job_1", "job_2"} |-> NoTask]

PersonNext ==
    \/ QuickResearchPerson
    \/ \E job_id \in JobIds : GetJob(job_id)
    \/ CleanupOldJobs
    \/ Tick

SpecPerson == PersonInit /\ [][PersonNext]_vars

\* planner_node and human_feedback_node called on a State: the graph
\* invokes a role with whatever state the thread has, so the state, the
\* ceiling and the resume value are drawn from their ranges
RoleInit ==
    /\ JmInit
    /\ hist = {}
    /\ phase = "run"
    /\ node \in {"planner", "human_feedback", "person_disambiguator"}
    /\ \E max \in 0..(MaxIter + 1), resume \in Feedbacks \cup {None} :
         run = [NewRun("role", None, max, None) EXCEPT !.status = "running",
                                                       !.resume = resume]
    /\ \E auto \in BOOLEAN, skip \in BOOLEAN, it \in 0..(MaxIter + 1),
          r \in PlannerResponses :
         state = IF node = "person_disambiguator"
                 THEN person_workflow_input(auto)
                 ELSE [workflow_input(auto, FALSE, skip, None) EXCEPT
                         !.plan_iterations = it,
                         !.messages = IF node = "planner" THEN @
                                      ELSE Append(@, "planner"),
                         !.current_plan = IF node = "planner" THEN NoPlan
                                          ELSE RawPlan(r)]

RoleNext ==
    \/ PlannerCeiling
    \/ PlannerNode
    \/ HumanFeedbackInterrupt
    \/ HumanFeedbackNode
    \/ PersonDisambiguatorNode

SpecRole == RoleInit /\ [][RoleNext]_vars

\* researcher_node and coder_node entered on any plan: each step has no
\* result, an empty one or a full one
StepResults == {None} \cup AgentResponses

StepInit ==
    /\ JmInit
    /\ hist = {}
    /\ phase = "run"
    /\ node \in {"researcher", "coder"}
    /\ run = [NewRun("role", None, 0, None) EXCEPT !.status = "running"]
    /\ \E types \in SeqsUpTo(StepTypes, MaxSteps), n \in 0..1 :
       \E res \in [1..Len(types) -> StepResults] :
         state = [workflow_input(TRUE, FALSE, FALSE, None) EXCEPT
                    !.searches_executed = n,
                    !.current_plan =
                        [kind |-> "plan", has_enough_context |-> FALSE,
                         steps |-> [i \in 1..Len(types) |->
                                      [step_type |-> types[i],
                                       execution_res |-> res[i]]]]]

StepNext ==
    \/ StepExecutorNode
    \/ OnChainStart
    \/ ResearchTeamNode

SpecStep == StepInit /\ [][StepNext]_vars

\* A superstep of the graph whose collaborators return: the role that is
\* scheduled starts, and the role that runs returns its Command, hits the
\* recursion limit or raises an error of its own
GraphStep ==
    \/ OnChainStart
    \/ GraphRecursionLimit
    \/ CoordinatorNode
    \/ BackgroundInvestigationNode
    \/ PlannerCeiling
    \/ PlannerNode
    \/ HumanFeedbackInterrupt
    \/ HumanFeedbackNode
    \/ ResearchTeamNode
    \/ StepExecutorNode
    \/ ReporterNode

\* The chat stream with collaborators that always return.  The event loop
\* resumes the graph whenever a role has returned, so the supersteps are
\* weakly fair; clients are free to come or not.
LiveNext ==
    \/ ChatStream
    \/ ChatResume
    \/ StreamEnd
    \/ GraphStep

SpecLive == Init /\ [][LiveNext]_vars /\ WF_vars(GraphStep)


----------------------------------------------------------------------------
(* Properties *)

\* The place of a status in PENDING, ..., COMPLETED
Rank(status) ==
    CASE status = PENDING -> 0
      [] status = COORDINATING -> 1
      [] status = PLANNING -> 2
      [] status = RESEARCHING -> 3
      [] status = REPORTING -> 4
      [] status = COMPLETED -> 5
      [] OTHER -> 6

\* A change of status that follows the order, or a jump to FAILED
Forward(old, new) ==
    /\ old \notin {COMPLETED, FAILED}
    /\ new = FAILED \/ Rank(new) > Rank(old)

\* C1: the statuses a job is seen to take follow the order PENDING,
\* COORDINATING, PLANNING, RESEARCHING, REPORTING, COMPLETED, possibly cut
\* short by FAILED; no earlier status is seen after a later one.
C1_StatusSequenceInOrder ==
    [][\A j \in JobIds :
         (seen[j] # NoJob /\ seen'[j].status # seen[j].status)
            => Forward(seen[j].status, seen'[j].status)]_vars

\* C2: update_status(job, s) applies s only when s is forward of the job's
\* status or is FAILED; any other attempt leaves the status unchanged in
\* memory and in durable storage.
C2_BackwardUpdateIgnored ==
    [][\A j \in JobIds :
         (last'.op = "update_job_status" /\ last'.job = j
          /\ ~Forward(jobs[j].status, last'.status))
            => /\ jobs'[j].status = jobs[j].status
               /\ db_jobs'[j] = db_jobs[j]]_vars

\* C3: a status update makes completed_at non-null when the new status is
\* COMPLETED or FAILED, and leaves it as it was for every other status.
C3_CompletedAtSetOnTerminal ==
    [][\A j \in JobIds :
         (last'.op = "update_job_status" /\ last'.job = j)
            => IF last'.status \in {COMPLETED, FAILED}
               THEN jobs'[j].completed_at # NoTime
               ELSE jobs'[j].completed_at = jobs[j].completed_at]_vars

\* C4: completed_at is null until the job is COMPLETED or FAILED, and once
\* it is non-null no update, error marking or read changes it.
C4_CompletedAtFixed ==
    [][\A j \in JobIds :
         /\ (seen'[j] # NoJob /\ seen'[j].completed_at # NoTime
             /\ (seen[j] = NoJob \/ seen[j].completed_at = NoTime))
               => seen'[j].status \in {COMPLETED, FAILED}
         /\ (seen[j] # NoJob /\ seen[j].completed_at # NoTime)
               => seen'[j].completed_at = seen[j].completed_at]_vars

\* C5: when an exception ends a job run, the job is FAILED with the
\* exception text as its error and completed_at set, no result record is
\* saved, and the fields committed before keep their values.
C5_ExceptionMarksJobFailed ==
    [][(InJob /\ run.status = "running" /\ run'.status = "failed")
         => LET j == run.job
            IN  /\ jobs'[j].status = FAILED
                /\ jobs'[j].error = run'.exc
                /\ jobs'[j].completed_at = now
                /\ db_results'[j] = NoRow
                /\ jobs'[j].thread_id = jobs[j].thread_id
                /\ jobs'[j].plan = jobs[j].plan
                /\ jobs'[j].final_report = jobs[j].final_report
                /\ jobs'[j].researcher_findings = jobs[j].researcher_findings
                /\ jobs'[j].structured_output = jobs[j].structured_output]_vars

C5_Witness ==
    /\ run.mode \in JobModes /\ run.status = "failed"
    /\ run.exc \in Errors
    /\ store = "ok"
    /\ jobs[run.job] # NoJob
    /\ jobs[run.job].status = FAILED
    /\ jobs[run.job].plan # None
    /\ jobs[run.job].thread_id # None

\* The workflow has a validated plan
HasPlan(st) == "current_plan" \in DOMAIN st /\ st.current_plan.kind = "plan"

\* The steps with a result are the first steps of the plan
ResultsFormPrefix(st) ==
    HasPlan(st) =>
        \A i, k \in 1..Len(st.current_plan.steps) :
            (i < k /\ Truthy(st.current_plan.steps[k].execution_res))
                => Truthy(st.current_plan.steps[i].execution_res)

\* C6: the steps with a result form a prefix of the plan, the step executor
\* works on the first step without a result, and the steps of a plan are
\* neither reordered nor removed.
C6_StepsRunInOrder ==
    [][/\ ResultsFormPrefix(state')
       /\ (HasPlan(state) /\ HasPlan(state'))
            => /\ Len(state'.current_plan.steps) = Len(state.current_plan.steps)
               /\ \A i \in 1..Len(state.current_plan.steps) :
                     state'.current_plan.steps[i].step_type
                         = state.current_plan.steps[i].step_type
       /\ (phase = "run" /\ node \in {"researcher", "coder"}
           /\ last'.op = "execute_step")
            => LET steps == state.current_plan.steps
                   i == last'.step
               IN  /\ i \in 1..Len(steps)
                   /\ ~Truthy(steps[i].execution_res)
                   /\ \A k \in 1..(i - 1) : Truthy(steps[k].execution_res)
                   /\ \A k \in 1..Len(steps) :
                        k # i => state'.current_plan.steps[k] = steps[k]]_vars

C6_Witness ==
    /\ HasPlan(state)
    /\ Len(state.current_plan.steps) = 2
    /\ Truthy(state.current_plan.steps[1].execution_res)
    /\ ~Truthy(state.current_plan.steps[2].execution_res)
    /\ last.op = "execute_step" /\ last.step = 1

\* Every step of the plan has a result
AllStepsDone(st) ==
    \A i \in 1..Len(st.current_plan.steps) :
        Truthy(st.current_plan.steps[i].execution_res)

Active(st) == "plan_iterations" \in DOMAIN st

C9_PlannerAtCeiling ==
    [][(phase = "run" /\ node = "planner" /\ last'.op = "planner"
        /\ state.plan_iterations >= run.max_plan_iterations)
         => /\ state' = state
            /\ jobs' = jobs
            /\ node' = IF state.skip_reporting THEN "__end__" ELSE "reporter"
      ]_vars

C9_Witness ==
    /\ InJob /\ Running
    /\ last.op = "planner" /\ last.case = "ceiling"
    /\ state.skip_reporting
    /\ node = "__end__"

\* C10: when the planner's output cannot be parsed while plan_iterations is
\* 0 the workflow ends at once: the reporter is not invoked, no step is
\* executed, and the job ends COMPLETED or FAILED with no final report.
C10_ParseFailureEndsWorkflow ==
    [][/\ (phase = "run" /\ node = "planner" /\ last'.op = "planner"
           /\ last'.case = "response" /\ ~last'.out.json
           /\ state.plan_iterations = 0)
            => node' = "__end__" /\ state' = state
       /\ (InJob /\ "parse_failed" \in hist /\ run'.status # run.status)
            => /\ hist \cap {"reporter", "researcher", "coder",
                             "step_executed"} = {}
               /\ jobs'[run.job].status \in {COMPLETED, FAILED}
               /\ jobs'[run.job].final_report = None]_vars

C10_Witness ==
    /\ InJob /\ Running
    /\ node = "__end__"
    /\ "parse_failed" \in hist
    /\ state.plan_iterations = 0
    /\ "background_investigator" \in hist

\* The step in which a role finds that the planner's output is not JSON
ParseFailureFound ==
    /\ phase = "run"
    /\ \/ /\ node = "planner" /\ last'.op = "planner"
          /\ last'.case = "response" /\ ~last'.out.json
       \/ /\ node = "human_feedback" /\ last'.op = "human_feedback"
          /\ last'.feedback = "accepted"
          /\ ~state.current_plan.text.json

\* C11: a parse failure found with plan_iterations > 0, in planner or in
\* human_feedback, routes to reporter when skip_reporting is false and to
\* the end, without the reporter, when skip_reporting is true.
C11_LaterParseFailureRoute ==
    [][(ParseFailureFound /\ state.plan_iterations > 0)
         => node' = IF state.skip_reporting THEN "__end__" ELSE "reporter"
      ]_vars

\* C12: in a job run with skip_reporting = true the reporter is never
\* invoked, and when the run completes final_report is null and, if an
\* observation was recorded, researcher_findings is made of the observations
\* in the order of execution.
C12_SkipReportingNeverReports ==
    [][(InJob /\ Running /\ run.skip_reporting = "True")
         => /\ ~(last'.op = "on_chain_start" /\ last'.name = "reporter")
            /\ last'.op = "run_finish"
                 => /\ jobs'[run.job].final_report = None
                    /\ state.observations # <<>>
                         => jobs'[run.job].researcher_findings
                                = state.observations]_vars

\* The roles that execute the plan
TeamRoles == {"research_team", "researcher", "coder"}

\* C13: research_team, and with it researcher and coder, is entered only
\* from human_feedback when auto_accepted_plan is set or the resume value
\* is an acceptance; with auto_accepted_plan set the workflow never
\* suspends and no interrupt is emitted.
C13_StepsOnlyAfterApproval ==
    [][/\ (node' \in TeamRoles /\ node \notin TeamRoles)
            => /\ node = "human_feedback" /\ phase = "run"
               /\ state.auto_accepted_plan \/ run.resume = "accepted"
       /\ (Active(state') /\ state'.auto_accepted_plan)
            => phase' # "interrupted" /\ "interrupt" \notin hist']_vars

C13_Witness ==
    /\ node = "research_team"
    /\ ~state.auto_accepted_plan
    /\ "interrupt" \in hist
    /\ last.op = "human_feedback" /\ last.feedback = "accepted"

\* C14: a resume value that is neither an edit nor an acceptance makes
\* human_feedback fail: no step is executed, and the job of the request is
\* marked FAILED with the message of the failure.
C14_MalformedResumeFailsJob ==
    [][(phase = "run" /\ node = "human_feedback"
        /\ last'.op = "human_feedback"
        /\ last'.feedback \notin {"edit_plan", "accepted"})
         => /\ node' \notin TeamRoles
            /\ run'.exc = "TypeError"
            /\ run.job \in JobIds
            /\ jobs'[run.job].status = FAILED
            /\ jobs'[run.job].error = "TypeError"]_vars

\* C15: after the disambiguator has completed without error either
\* disambiguation_candidates holds the two or more candidates and
\* selected_candidate is null, or selected_candidate is the one candidate
\* and disambiguation_candidates is null or empty; never both, never neither.
C15_CandidatesOrSelection ==
    [][(phase = "run" /\ node = "person_disambiguator"
        /\ last'.op = "person_disambiguator" /\ run'.status = "running")
         => LET listed == state'.disambiguation_candidates
                chosen == state'.selected_candidate
                several == listed # NoCandidates /\ listed # <<>>
            IN  /\ several # (chosen # None)
                /\ several => /\ Len(last'.candidates) >= 2
                              /\ listed = last'.candidates
                /\ chosen # None => /\ Len(last'.candidates) = 1
                                    /\ chosen = last'.candidates[1]]_vars

C15_Witness ==
    /\ last.op = "person_disambiguator" /\ Running
    /\ Len(last.candidates) = 2
    /\ state.disambiguation_candidates = last.candidates
    /\ state.selected_candidate = None
    /\ node = "__end__"

\* C16: a quick person research whose disambiguation extracts no candidate
\* is rejected, and the job created for the request ends FAILED with an
\* error message, neither COMPLETED nor in a status before the end.
C16_NoCandidateFailsJob ==
    [][(last'.op = "quick_research_person" /\ Len(last'.candidates) = 0)
         => /\ last'.response.status = "http_500"
            /\ jobs'[last'.job].status = FAILED
            /\ jobs'[last'.job].error # None]_vars

\* C17: a quick person research whose disambiguation extracts two or more
\* candidates answers awaiting_disambiguation with every candidate, and
\* selects none.
C17_SeveralCandidatesAreReturned ==
    [][(last'.op = "quick_research_person" /\ Len(last'.candidates) >= 2)
         => /\ last'.response.status = "awaiting_disambiguation"
            /\ last'.response.candidates = last'.candidates
            /\ last'.response.selected_candidate = None]_vars

\* C18: a quick person research whose disambiguation extracts exactly one
\* candidate answers completed with a final report and with that candidate
\* as selected_candidate.
C18_OneCandidateCompletes ==
    [][(last'.op = "quick_research_person" /\ Len(last'.candidates) = 1
        /\ last'.candidates[1] # "cand_noname")
         => /\ last'.response.status = "completed"
            /\ last'.response.final_report # None
            /\ last'.response.selected_candidate = last'.candidates[1]]_vars

\* C19: create_job registers a new job with a fresh identifier and status
\* PENDING in the cache whether or not the insert into the store succeeds,
\* and touches no other job.
C19_CreateJobSurvivesStoreFailure ==
    [][\A j \in JobIds :
         (last'.op = "create_job" /\ last'.job = j)
            => /\ jobs[j] = NoJob /\ seen[j] = NoJob
               /\ jobs'[j] = ResearchJob
               /\ jobs'[j].status = PENDING
               /\ \A k \in JobIds \ {j} : jobs'[k] = jobs[k]]_vars

C19_Witness ==
    /\ last.op = "create_job"
    /\ store = "failing"
    /\ jobs[last.job] # NoJob
    /\ jobs[last.job].status = PENDING
    /\ db_jobs[last.job] = NoRow

\* C20: get_job returns the cached job when the id is in the cache and
\* leaves the cache as it is; otherwise, when the store has the id, it
\* returns the job rebuilt from the row and caches it; it returns
\* not-found exactly when the id is in neither.
C20_GetJobCacheThenStore ==
    [][\A j \in JobIds :
         (last'.op = "get_job" /\ last'.job = j)
            => /\ jobs[j] # NoJob
                    => last'.returned = jobs[j] /\ jobs' = jobs
               /\ (jobs[j] = NoJob /\ db_jobs[j] # NoRow)
                    => /\ last'.returned = job_from_db(j)
                       /\ jobs'[j] = last'.returned
               /\ last'.returned = NoJob
                    <=> (jobs[j] = NoJob /\ db_jobs[j] = NoRow)]_vars

\* C20, amended: get_job returns the cached job when the id is in the
\* cache and leaves the cache as it is; otherwise, when the store answers
\* and has the id, it returns the job rebuilt from the row and caches it;
\* it returns not-found exactly when the id is not in the cache and the
\* store is not configured, raises, or has no row for the id.
C20_GetJobCacheThenAnsweringStore ==
    [][\A j \in JobIds :
         (last'.op = "get_job" /\ last'.job = j)
            => /\ jobs[j] # NoJob
                    => last'.returned = jobs[j] /\ jobs' = jobs
               /\ (jobs[j] = NoJob /\ store = "ok" /\ db_jobs[j] # NoRow)
                    => /\ last'.returned = job_from_db(j)
                       /\ jobs'[j] = last'.returned
               /\ last'.returned = NoJob
                    <=> /\ jobs[j] = NoJob
                        /\ store # "ok" \/ db_jobs[j] = NoRow]_vars

C20_Witness ==
    /\ last.op = "get_job" /\ ~last.hit
    /\ last.returned # NoJob
    /\ jobs[last.job] = last.returned
    /\ last.returned.status = COMPLETED

\* C21: after delete_job(id) the job is in neither the cache nor the
\* store, nor is its result record, and every later get_job(id) returns
\* not-found.
C21_DeletedJobIsGone ==
    [][\A j \in JobIds :
         /\ (last'.op = "delete_job" /\ last'.job = j)
               => /\ jobs'[j] = NoJob
                  /\ db_jobs'[j] = NoRow
                  /\ db_results'[j] = NoRow
         /\ (last'.op = "get_job" /\ last'.job = j /\ seen[j] = Deleted)
               => last'.returned = NoJob]_vars

\* C23: save_job_result writes a result record only for a job whose
\* status is COMPLETED; on a job in any other status it leaves the store as
\* it is, so a result record only ever appears for a COMPLETED job.
C23_ResultSavedOnlyWhenCompleted ==
    [][\A j \in JobIds :
         /\ (last'.op = "save_job_result" /\ last'.job = j
             /\ jobs[j].status # COMPLETED)
               => db_results' = db_results /\ db_jobs' = db_jobs
         /\ (db_results'[j] # NoRow /\ db_results'[j] # db_results[j])
               => /\ last'.op = "save_job_result" /\ last'.job = j
                  /\ jobs[j].status = COMPLETED]_vars

C23_Witness ==
    /\ last.op = "save_job_result"
    /\ store = "ok"
    /\ jobs[last.job].status = FAILED
    /\ db_jobs[last.job] # NoRow
    /\ db_results[last.job] = NoRow

\* C25: a sync research request that does not specify skip_reporting
\* starts its workflow with skip_reporting true.
C25_SyncSkipsReportingByDefault ==
    [][(/\ last'.op = "start_research"
        /\ last'.mode = "sync"
        /\ last'.skip_given = "absent")
          => state'.skip_reporting /\ run'.skip_reporting = "True"]_vars

\* C26: the fetch-result operation returns a result payload only for a job
\* whose status is COMPLETED.
C26_ResultOnlyWhenCompleted ==
    [][(last'.op = "get_research_result"
        /\ last'.response.status = "http_200")
          => last'.response.job_status = COMPLETED]_vars

\* C26, amended: the fetch-result operation answers not-found exactly when
\* get_job finds no job; for every job it finds, whatever its status, it
\* returns a payload with the job's status, error and result fields as they
\* are at that moment.
C26_ResultForEveryJobFound ==
    [][\A j \in JobIds :
         (last'.op = "get_research_result" /\ last'.job = j)
            => LET job == jobs'[j]
                   response == last'.response
               IN  /\ response.status = "http_404" <=> job = NoJob
                   /\ job # NoJob
                        => /\ response.status = "http_200"
                           /\ response.job_status = job.status
                           /\ response.error = job.error
                           /\ response.final_report = job.final_report
                           /\ response.researcher_findings
                                 = job.researcher_findings
                           /\ response.plan = job.plan
                           /\ response.structured_output
                                 = job.structured_output]_vars

C26_Witness ==
    /\ last.op = "get_research_result"
    /\ last.response.status = "http_200"
    /\ last.response.job_status \in {PENDING, RESEARCHING, FAILED}

\* C24: the retention sweep never deletes or modifies a durable job or
\* result record, and it removes a job from the cache only when the job is
\* older than the retention window.
C24_SweepTouchesMemoryOnly ==
    [][last'.op = "cleanup"
         => /\ db_jobs' = db_jobs
            /\ db_results' = db_results
            /\ \A j \in JobIds :
                 jobs'[j] # jobs[j]
                    => /\ jobs'[j] = NoJob
                       /\ jobs[j].completed_at # NoTime
                       /\ now - jobs[j].completed_at > MaxAgeHours]_vars

C22_DeleteStopsTheRun ==
    [][\A j \in JobIds :
         seen[j] = Deleted
            => /\ tasks'[j].job = tasks[j].job
               /\ db_jobs'[j] = db_jobs[j]
               /\ db_results'[j] = db_results[j]]_vars

\* C22, amended: after delete_job(id) has returned, the run of a job
\* started by the async operation makes no further status transition on it
\* and writes nothing more to the store for it.
C22_DeleteStopsTheAsyncRun ==
    [][\A j \in JobIds :
         (seen[j] = Deleted /\ tasks[j].mode = "async")
            => /\ tasks'[j].job = tasks[j].job
               /\ db_jobs'[j] = db_jobs[j]
               /\ db_results'[j] = db_results[j]]_vars

C22_Witness ==
    \E j \in JobIds :
       /\ seen[j] = Deleted
       /\ tasks[j].mode = "async" /\ tasks[j].status = "cancelled"
       /\ tasks[j].job.status = RESEARCHING

\* C28: a step of one job's run, its failure included, changes nothing of
\* any other job, in memory or in the store; and the record the cache shows
\* for a job is the one its own run has produced.
C28_JobsDoNotAffectEachOther ==
    /\ [][\A j, k \in JobIds :
            (/\ j # k
             /\ last'.op \in {"start_task", "task_begin", "task_event",
                              "task_finish", "task_raise"}
             /\ last'.job = j)
               => /\ jobs'[k] = jobs[k]
                  /\ tasks'[k] = tasks[k]
                  /\ db_jobs'[k] = db_jobs[k]
                  /\ db_results'[k] = db_results[k]]_vars
    /\ [](\A j \in JobIds : jobs[j] # NoJob => jobs[j] = tasks[j].job)

C28_Witness ==
    /\ last.op = "task_raise"
    /\ \E k \in JobIds :
          /\ k # last.job
          /\ tasks[k].status = "running"
          /\ jobs[k].status = RESEARCHING
          /\ jobs[last.job].status = FAILED

\* C29: every interrupt event of a stream carries exactly the two options
\* edit-plan and accept; it is the last event of its stream invocation, no
\* event follows until the client invokes the stream again; and the
\* execution stays suspended at the human-feedback role, not terminated.
C29_InterruptEndsTheInvocation ==
    /\ [](run.last_event.type = "interrupt"
            => /\ run.last_event.options = <<"edit_plan", "accepted">>
               /\ run.status = "running"
               /\ phase = "interrupted"
               /\ node = "human_feedback"
               /\ state.current_plan # NoPlan)
    /\ [][run.last_event.type = "interrupt"
            => last'.op \in {"chat_resume", "chat_stream"}]_vars

C29_Witness ==
    /\ run.mode = "stream"
    /\ run.last_event.type = "interrupt"
    /\ run.resumes > 0
    /\ last.op = "interrupt"

\* C30: a stream carries at most one error event, and an error event is
\* the last event of its stream.
C30_OneErrorEventAtTheEnd ==
    /\ [](run.errors <= 1)
    /\ [][run.last_event.type = "error"
            => last'.op \in {"chat_resume", "chat_stream"}]_vars

\* C30, amended: an uncaught error of the execution produces exactly one
\* error event, "Error during graph execution", which is the last event of
\* the stream: the stream is closed with it.  An event whose data cannot be
\* serialised is replaced by an error event of its own, "Serialization
\* failed", and the stream goes on after it.
C30_ExecutionErrorEndsTheStream ==
    /\ [][(run.mode = "stream" /\ run.status = "running"
           /\ run'.exc # None)
            => /\ run'.last_event = graph_error_event
               /\ run'.errors = run.errors + 1
               /\ run'.status = "closed"]_vars
    /\ [][run.last_event = graph_error_event
            => last'.op = "chat_stream"]_vars
    /\ [][(last'.op = "stream_message" /\ last'.event.type = "error")
            => /\ last'.event.error = "Serialization failed"
               /\ run'.last_event = last'.event
               /\ run'.status = "running"
               /\ <<node', phase', state'>> = <<node, phase, state>>]_vars

C30_Witness ==
    /\ run.mode = "stream"
    /\ run.status = "closed"
    /\ run.last_event = graph_error_event
    /\ run.errors = 2

\* C31: a structured_output that the reporter returns for an output
\* schema has every field the schema requires; an extracted object that
\* lacks a required field is never returned.
C31_StructuredOutputHasRequiredFields ==
    [][(last'.op = "reporter" /\ last'.case = "report")
          => state'.structured_output \in {None, "so_full"}]_vars

\* C32: when the extraction fails or there is no output schema, the
\* reporter returns the report text as final_report with structured_output
\* null, and neither the role nor the job fails.
C32_ExtractionFailureKeepsReport ==
    [][(/\ last'.op = "reporter" /\ last'.case = "report"
        /\ state.output_schema = None \/ last'.ext = "raise")
          => /\ state'.final_report = last'.out
             /\ state'.structured_output = None
             /\ node' = "__end__"
             /\ run'.status = "running" /\ run'.exc = None
             /\ jobs'[run.job].status # FAILED]_vars

C32_Witness ==
    /\ last.op = "reporter" /\ last.case = "report"
    /\ InJob
    /\ state.output_schema # None /\ last.ext = "raise"
    /\ state.final_report = "report"
    /\ state.structured_output = None

\* C33: the step executor invokes the agent only for a step that has no
\* recorded result yet, so every step is executed, and its result written,
\* at most once, whatever the agent answers.
C33_StepExecutedAtMostOnce ==
    [][(last'.op = "execute_step" /\ last'.step # 0)
          => state.current_plan.steps[last'.step].execution_res = None]_vars

\* C34: researcher or coder entered with no unfinished step goes back to
\* research_team and leaves the workflow state as it was: no message, no
\* observation, no step result and no counter changes.
C34_NoStepChangesNothing ==
    [][(last'.op = "execute_step" /\ last'.step = 0)
          => /\ node' = "research_team"
             /\ state' = state]_vars

\* C35: when the run of a job has finished (the sync or quick person
\* research request has returned, or the async task has ended without being
\* cancelled), the job is COMPLETED or FAILED.
C35_FinishedRunIsCompletedOrFailed ==
    /\ [][\A j \in JobIds :
            (last'.op = "quick_research_person" /\ last'.job = j)
               => jobs'[j].status \in {COMPLETED, FAILED}]_vars
    /\ [](\A j \in JobIds :
            (run.job = j /\ run.status \in {"completed", "failed"}
             /\ jobs[j] # NoJob)
               => jobs[j].status \in {COMPLETED, FAILED})

\* C36: with a working store, once the run of a job has finished, the
\* durable row has the status and the error text of the in-memory job, and
\* a completed_at exactly when the in-memory job has one.
C36_DurableAgreesWithMemory ==
    \A j \in JobIds :
       (/\ store = "ok"
        /\ run.job = j /\ run.status \in {"completed", "failed"}
        /\ jobs[j] # NoJob /\ db_jobs[j] # NoRow)
          => /\ db_jobs[j].status = jobs[j].status
             /\ db_jobs[j].error = jobs[j].error
             /\ (db_jobs[j].completed_at = NoTime)
                   <=> (jobs[j].completed_at = NoTime)

\* C37: under fair scheduling, with auto_accepted_plan set and collaborators
\* that always return, the loop of research_team and the step executors
\* cannot run for ever: an execution that is in the loop eventually leaves
\* it for the planner, the reporter or the end of the graph, whatever the
\* plan and the answers of the agents.
C37_StepLoopEnds ==
    (/\ Running /\ run.mode = "stream"
     /\ state.auto_accepted_plan = TRUE
     /\ node \in {"research_team", "researcher", "coder"})
        ~> (Running /\ node \in {"planner", "reporter", "__end__"})

\* C38: a request that creates a job (async, sync or quick person research)
\* creates exactly one job record, also when it fails: the failure is marked
\* on the job of the request and no second record appears.
C38_OneJobPerRequest ==
    [][(last'.op \in {"start_research", "quick_research_person"})
          => /\ Cardinality({j \in JobIds :
                               jobs[j] = NoJob /\ jobs'[j] # NoJob}) = 1
             /\ (last'.op = "quick_research_person"
                 /\ last'.response.status = "http_500")
                   => jobs'[last'.job].status = FAILED]_vars

\* The values of the options of an interrupt event
OptionValues == {"edit_plan", "accepted"}

\* C39 as stated: resumed with the value of the edit-plan option,
\* human_feedback goes back to the planner with the feedback appended to the
\* messages; resumed with the value of the accept option it goes on to
\* research_team; neither value is refused as a malformed resume value.
C39_OptionValuesResume ==
    [][(/\ phase = "run" /\ node = "human_feedback"
        /\ last'.op = "human_feedback"
        /\ ~state.auto_accepted_plan /\ run.resume \in OptionValues)
          => /\ run'.exc # "TypeError"
             /\ run.resume = "edit_plan"
                  => /\ node' = "planner"
                     /\ state'.messages = Append(state.messages, "feedback")
             /\ run.resume = "accepted" => node' = "research_team"]_vars

\* C39, amended: the value of the edit-plan option sends the execution
\* back to the planner with the feedback appended; the value of the accept
\* option is taken as an acceptance, after which human_feedback goes on to
\* research_team when the planner's text validates as a plan and fails with
\* the validation error of the plan otherwise; neither value is refused as
\* a malformed resume value.
C39_OptionValuesAreResumeSignals ==
    [][(/\ phase = "run" /\ node = "human_feedback"
        /\ last'.op = "human_feedback"
        /\ ~state.auto_accepted_plan /\ run.resume \in OptionValues)
          => /\ run'.exc # "TypeError"
             /\ run.resume = "edit_plan"
                  => /\ node' = "planner"
                     /\ state'.messages = Append(state.messages, "feedback")
                     /\ state'.current_plan = state.current_plan
             /\ run.resume = "accepted"
                  => IF state.current_plan.text.json
                        /\ state.current_plan.text.valid
                     THEN node' = "research_team"
                     ELSE IF state.current_plan.text.json
                     THEN run'.exc = "ValidationError"
                     ELSE node' \in {"reporter", "__end__"}]_vars

C39_Witness ==
    /\ last.op = "human_feedback" /\ last.feedback = "edit_plan"
    /\ run.mode = "stream" /\ run.resumes > 0
    /\ "interrupt" \in hist
    /\ node = "planner"
    /\ state.messages[Len(state.messages)] = "feedback"

\* C40: delete_old_jobs(days) deletes exactly the jobs that are completed or
\* failed and whose completed_at is earlier than the current time minus
\* days days, and returns their number, on every date and for every days.
C40_DeletesExactlyTheOldJobs ==
    [][last'.op = "delete_old_jobs"
          => LET old == {j \in JobIds :
                           /\ db_jobs[j] # NoRow
                           /\ db_jobs[j].status \in {COMPLETED, FAILED}
                           /\ db_jobs[j].completed_at # NoTime
                           /\ db_jobs[j].completed_at < now - 24 * last'.days}
             IN  /\ \A j \in JobIds : db_jobs'[j] = NoRow
                                         <=> (j \in old \/ db_jobs[j] = NoRow)
                 /\ last'.count = Cardinality(old)]_vars

============================================================================
